---- MODULE Spec2Model ----
(***************************************************************************)
(* Client-side session gate and request workflows of the Scriberr web      *)
(* frontend: ProtectedRoute, Login, Register, LLMSettings and              *)
(* YouTubeDownloadDialog.                                                  *)
(*                                                                         *)
(* Text values are sequences of one-character strings, so that trim(),     *)
(* includes() and the password rules are computed, not assumed.            *)
(* React state is one variable per useState cell; a request in flight is   *)
(* a record that keeps what the handler's closure captured.                *)
(***************************************************************************)
EXTENDS Integers, Sequences, FiniteSets, TLC

VARIABLES
    \* useAuth() values read by ProtectedRoute
    isInitialized, requiresRegistration, isAuthenticated, token,
    loginCalls,      \* tokens the session's login action was invoked with
    renderLog,       \* screens ProtectedRoute returned, one per render
    \* Login component
    loginUsername, loginPassword, loginLoading, loginError, loginInflight,
    loginSettled,    \* responses the Login handler has consumed
    \* Register component
    regUsername, regPassword, regConfirmPassword, regLoading, regError,
    regInflight, regSettled,
    okLog,           \* 2xx responses the Login and Register handlers consumed
    \* YouTubeDownloadDialog
    ytIsOpen, ytUrl, ytTitle, ytIsDownloading, ytError, ytSuccess,
    ytInflight,      \* import requests awaiting their response
    ytTimers,        \* auto-close timers set and not yet fired
    ytCallbacks,     \* the caller's callbacks the last handler invoked, in order
    \* LLMSettings
    llmConfig, llmBaseUrl, llmApiKey, llmLoading, llmSaving, llmMessage,
    llmFetching,     \* the GET of fetchConfig awaits its response
    llmSaveInflight  \* save requests awaiting their response

authVars == <<isInitialized, requiresRegistration, isAuthenticated, token,
              loginCalls>>
loginVars == <<loginUsername, loginPassword, loginLoading, loginError,
               loginInflight, loginSettled>>
regVars == <<regUsername, regPassword, regConfirmPassword, regLoading,
             regError, regInflight, regSettled>>
ytVars == <<ytIsOpen, ytUrl, ytTitle, ytIsDownloading, ytError, ytSuccess,
            ytInflight, ytTimers, ytCallbacks>>
llmVars == <<llmConfig, llmBaseUrl, llmApiKey, llmLoading, llmSaving, llmMessage,
             llmFetching, llmSaveInflight>>
\* the components behind the gate
appVars == <<ytVars, llmVars>>
\* the gate and the screens it renders itself
gateVars == <<authVars, renderLog, loginVars, regVars, okLog>>
vars == <<gateVars, appVars>>

(***************************************************************************)
(* Bounds                                                                  *)
(***************************************************************************)
MaxRenders == 3      \* renders recorded in renderLog
MaxInflight == 2     \* requests of one workflow in flight at once
MaxSent == 2         \* requests one workflow issues in a run

(***************************************************************************)
(* Text helpers: JavaScript string operations on character sequences       *)
(***************************************************************************)
Whitespace == {" ", "\t", "\n"}

RECURSIVE TrimStart(_)
TrimStart(s) ==
    IF s # <<>> /\ Head(s) \in Whitespace THEN TrimStart(Tail(s)) ELSE s

RECURSIVE TrimEnd(_)
TrimEnd(s) ==
    IF s # <<>> /\ s[Len(s)] \in Whitespace
    THEN TrimEnd(SubSeq(s, 1, Len(s) - 1))
    ELSE s

\* String.prototype.trim
Trim(s) == TrimEnd(TrimStart(s))

\* String.prototype.includes
Includes(s, sub) ==
    \E i \in 1..(Len(s) - Len(sub) + 1) : SubSeq(s, i, i + Len(sub) - 1) = sub

\* RegExp.prototype.test for a one-character class
TestClass(s, class) == \E i \in 1..Len(s) : s[i] \in class

(***************************************************************************)
(* ProtectedRoute                                                          *)
(***************************************************************************)
Screens == {"loading", "registration", "login", "content"}

ProtectedRouteNoRegistrationPriority(initialized, registration, authenticated) ==
    IF ~initialized THEN "loading"
    ELSE IF ~authenticated THEN
        (IF registration THEN "registration" ELSE "login")
    ELSE "content"

\* a gate that keeps the loading screen until a session is authenticated
ProtectedRouteLoadingUntilAuthenticated(initialized, registration, authenticated) ==
    IF ~initialized \/ (~registration /\ ~authenticated) THEN "loading"
    ELSE IF registration THEN "registration"
    ELSE "content"

ProtectedRoute(initialized, registration, authenticated) ==
    IF ~initialized THEN "loading"
    ELSE IF registration THEN "registration"
    ELSE IF ~authenticated THEN "login"
    ELSE "content"

\* the screen currently rendered
Screen == ProtectedRoute(isInitialized, requiresRegistration, isAuthenticated)

(***************************************************************************)
(* fetch(): what a request can settle with                                 *)
(***************************************************************************)
ServerMessages == {"Invalid credentials"}
Tokens == {"tok1", "tok2"}

NonJsonBody == [json |-> FALSE]
ErrorBodies ==
    {[json |-> TRUE]} \cup {[json |-> TRUE, error |-> m] : m \in ServerMessages \cup {""}}
\* a 2xx body: JSON with a token, or JSON without one (data.token is undefined)
TokenBodies == {[json |-> TRUE]} \cup {[json |-> TRUE, token |-> t] : t \in Tokens}

NetworkFailure == [kind |-> "network"]
HttpResponse(ok, body) == [kind |-> "http", ok |-> ok, body |-> body]

AuthResponses ==
    {NetworkFailure}
    \cup {HttpResponse(TRUE, b) : b \in TokenBodies \cup {NonJsonBody}}
    \cup {HttpResponse(FALSE, b) : b \in ErrorBodies \cup {NonJsonBody}}

\* the promise of fetch() resolved (any status); it rejects on transport failure
Resolved(resp) == resp.kind = "http"
\* response.json() resolves
Parses(resp) == Resolved(resp) /\ resp.body.json
\* body.error || fallback
ErrorOr(body, fallback) ==
    IF "error" \in DOMAIN body /\ body.error # "" THEN body.error ELSE fallback

\* a sequence without its i-th element
RemoveAt(seq, i) == SubSeq(seq, 1, i - 1) \o SubSeq(seq, i + 1, Len(seq))

RECURSIVE Repeat(_, _)
Repeat(c, n) == IF n = 0 THEN <<>> ELSE <<c>> \o Repeat(c, n - 1)

(***************************************************************************)
(* Session (AuthContext): initialization check, login action, logout       *)
(***************************************************************************)
InitOutcomes == {"registrationRequired", "registrationNotRequired", "failed"}

\* the one-shot check at application start; a failed check assumes that
\* registration is not required
InitializationCheck(outcome) ==
    /\ ~isInitialized
    /\ isInitialized' = TRUE
    /\ requiresRegistration' = (outcome = "registrationRequired")
    /\ UNCHANGED <<isAuthenticated, token, loginCalls>>

\* login(token) of useAuth(), passed to Login as onLogin and to Register as
\* onRegister
SessionLogin(t) ==
    /\ token' = t
    /\ isAuthenticated' = TRUE
    /\ requiresRegistration' = FALSE
    /\ loginCalls' = Append(loginCalls, t)
    /\ UNCHANGED isInitialized

SessionLogout ==
    /\ token' = ""
    /\ isAuthenticated' = FALSE
    /\ UNCHANGED <<isInitialized, requiresRegistration, loginCalls>>

(***************************************************************************)
(* Login                                                                   *)
(***************************************************************************)
LoginFailedMessage == "Login failed"
LoginNetworkErrorMessage == "Network error. Please try again."

\* useState initial values: the state of a freshly mounted Login
LoginMount ==
    /\ loginUsername' = <<>>
    /\ loginPassword' = <<>>
    /\ loginLoading' = FALSE
    /\ loginError' = ""

LoginSubmitDisabled ==
    loginLoading \/ Trim(loginUsername) = <<>> \/ Trim(loginPassword) = <<>>

\* a handler that does not clear the error of the previous attempt
LoginHandleSubmitKeepsError ==
    /\ loginLoading' = TRUE
    /\ loginInflight' = Append(loginInflight,
            [username |-> loginUsername, password |-> loginPassword])
    /\ loginSettled' = <<>>
    /\ UNCHANGED <<loginUsername, loginPassword, loginError>>

\* handleSubmit up to the await of fetch()
LoginHandleSubmit ==
    /\ loginError' = ""
    /\ loginLoading' = TRUE
    /\ loginInflight' = Append(loginInflight,
            [username |-> loginUsername, password |-> loginPassword])
    /\ loginSettled' = <<>>
    /\ UNCHANGED <<loginUsername, loginPassword>>

\* what the handler's try/catch shows for a settled request that did not log in
LoginErrorFor(resp) ==
    IF Resolved(resp) /\ ~resp.ok /\ Parses(resp)
    THEN ErrorOr(resp.body, LoginFailedMessage)
    ELSE LoginNetworkErrorMessage

\* whether handleSubmit reaches onLogin(data.token)
LoginCallsOnLoginAnyParsed(resp) == Parses(resp)

LoginCallsOnLogin(resp) == Resolved(resp) /\ resp.ok /\ Parses(resp)

(***************************************************************************)
(* Register                                                                *)
(***************************************************************************)
MinPasswordLength == 8
MinUsernameLength == 3
MaxUsernameLength == 50

UppercaseChars == {"A", "B", "C", "D", "E", "F", "G", "H", "I", "J", "K", "L", "M",
                   "N", "O", "P", "Q", "R", "S", "T", "U", "V", "W", "X", "Y", "Z"}
LowercaseChars == {"a", "b", "c", "d", "e", "f", "g", "h", "i", "j", "k", "l", "m",
                   "n", "o", "p", "q", "r", "s", "t", "u", "v", "w", "x", "y", "z"}
DigitChars == {"0", "1", "2", "3", "4", "5", "6", "7", "8", "9"}
SpecialChars == {"!", "@", "#", "$", "%", "^", "&", "*", "(", ")", ",", ".", "?",
                 "\"", ":", "{", "}", "|", "<", ">"}

\* a strength check that never looks for a special character
checkPasswordStrengthNoSpecial(pwd) ==
    [hasMinLength |-> Len(pwd) >= MinPasswordLength,
     hasUppercase |-> TestClass(pwd, UppercaseChars),
     hasLowercase |-> TestClass(pwd, LowercaseChars),
     hasNumber |-> TestClass(pwd, DigitChars),
     hasSpecialChar |-> TRUE]

checkPasswordStrength(pwd) ==
    [hasMinLength |-> Len(pwd) >= MinPasswordLength,
     hasUppercase |-> TestClass(pwd, UppercaseChars),
     hasLowercase |-> TestClass(pwd, LowercaseChars),
     hasNumber |-> TestClass(pwd, DigitChars),
     hasSpecialChar |-> TestClass(pwd, SpecialChars)]

isPasswordValidSome(pwd) ==
    \E f \in DOMAIN checkPasswordStrength(pwd) : checkPasswordStrength(pwd)[f]

\* Object.values(passwordStrength).every(Boolean)
isPasswordValid(pwd) ==
    \A f \in DOMAIN checkPasswordStrength(pwd) : checkPasswordStrength(pwd)[f]

\* a comparison that lets two empty fields match
passwordsMatchAllowEmpty(pwd, confirm) == pwd = confirm

passwordsMatch(pwd, confirm) == pwd = confirm /\ Len(confirm) > 0

RegPasswordRequirementsMessage == "Please ensure your password meets all requirements"
RegPasswordsDoNotMatchMessage == "Passwords do not match"
RegFailedMessage == "Registration failed"
RegNetworkErrorMessage == "Network error. Please try again."

RegisterMount ==
    /\ regUsername' = <<>>
    /\ regPassword' = <<>>
    /\ regConfirmPassword' = <<>>
    /\ regLoading' = FALSE
    /\ regError' = ""

RegSubmitDisabled ==
    \/ regLoading
    \/ Trim(regUsername) = <<>>
    \/ ~isPasswordValid(regPassword)
    \/ ~passwordsMatch(regPassword, regConfirmPassword)

\* the form's constraint validation: required, minLength and maxLength of the
\* username input, required of the two password inputs
RegFormConstraintsNoMinLength ==
    /\ regUsername # <<>>
    /\ Len(regUsername) <= MaxUsernameLength
    /\ regPassword # <<>>
    /\ regConfirmPassword # <<>>

RegFormConstraints ==
    /\ regUsername # <<>>
    /\ Len(regUsername) >= MinUsernameLength
    /\ Len(regUsername) <= MaxUsernameLength
    /\ regPassword # <<>>
    /\ regConfirmPassword # <<>>

\* handleSubmit up to its first return or the await of fetch(); via records
\* what delivered the submit event
RegHandleSubmit(via) ==
    /\ regSettled' = <<>>
    /\ IF ~isPasswordValid(regPassword) THEN
            /\ regError' = RegPasswordRequirementsMessage
            /\ UNCHANGED <<regLoading, regInflight>>
       ELSE IF ~passwordsMatch(regPassword, regConfirmPassword) THEN
            /\ regError' = RegPasswordsDoNotMatchMessage
            /\ UNCHANGED <<regLoading, regInflight>>
       ELSE
            /\ regError' = ""
            /\ regLoading' = TRUE
            /\ regInflight' = Append(regInflight,
                    [username |-> regUsername, password |-> regPassword,
                     confirmPassword |-> regConfirmPassword, via |-> via])
    /\ UNCHANGED <<regUsername, regPassword, regConfirmPassword>>

RegErrorFor(resp) ==
    IF Resolved(resp) /\ ~resp.ok /\ Parses(resp)
    THEN ErrorOr(resp.body, RegFailedMessage)
    ELSE RegNetworkErrorMessage

\* whether handleSubmit reaches onRegister(data.token)
RegCallsOnRegister(resp) == Resolved(resp) /\ resp.ok /\ Parses(resp)

(***************************************************************************)
(* Inputs                                                                  *)
(***************************************************************************)
\* what a user types into the Login fields
LoginTexts == {<<>>, <<" ">>, <<"b", "o", "b">>}

ValidPassword == <<"A", "b", "c", "d", "e", "f", "1", "!">>
ShortPassword == <<"a", "b", "c">>
RegPasswords ==
    {<<>>, ShortPassword, ValidPassword,
     <<"A", "b", "1", "!">>,                          \* too short only
     <<"a", "b", "c", "d", "e", "f", "1", "!">>,      \* no uppercase
     <<"A", "B", "C", "D", "E", "F", "1", "!">>,      \* no lowercase
     <<"A", "b", "c", "d", "e", "f", "g", "!">>,      \* no digit
     <<"A", "b", "c", "d", "e", "f", "g", "1">>}      \* no special character
RegConfirms == {<<>>, ShortPassword, ValidPassword}
RegUsernames ==
    {<<>>, Repeat(" ", MinUsernameLength),
     Repeat("u", MinUsernameLength - 1), Repeat("u", MinUsernameLength),
     Repeat("u", MaxUsernameLength), Repeat("u", MaxUsernameLength + 1)}

\* the property read of a parsed body: data.token
TokenOf(body) == IF "token" \in DOMAIN body THEN body.token ELSE "undefined"

\* requests the session has room for in a bounded run
MayIssue == Len(okLog) + Len(loginInflight) + Len(regInflight) < MaxSent

(***************************************************************************)
(* ProtectedRoute rendered from arbitrary useAuth() values                 *)
(***************************************************************************)
UseAuthUpdate(initialized, registration, authenticated) ==
    /\ Len(renderLog) < MaxRenders
    /\ isInitialized' = initialized
    /\ requiresRegistration' = registration
    /\ isAuthenticated' = authenticated
    /\ renderLog' = Append(renderLog,
            ProtectedRoute(initialized, registration, authenticated))
    /\ UNCHANGED <<token, loginCalls, loginVars, regVars, okLog, appVars>>

(***************************************************************************)
(* Session actions                                                         *)
(***************************************************************************)
InitCheckSettles(outcome) ==
    /\ InitializationCheck(outcome)
    /\ UNCHANGED <<renderLog, loginVars, regVars, okLog, appVars>>

Logout ==
    /\ Screen = "content"
    /\ SessionLogout
    /\ UNCHANGED <<renderLog, loginVars, regVars, okLog, appVars>>

(***************************************************************************)
(* Login actions                                                           *)
(***************************************************************************)
LoginTypeUsername(u) ==
    /\ Screen = "login"
    /\ ~loginLoading
    /\ loginUsername' = u
    /\ UNCHANGED <<loginPassword, loginLoading, loginError, loginInflight,
                   loginSettled, authVars, renderLog, regVars, okLog, appVars>>

LoginTypePassword(p) ==
    /\ Screen = "login"
    /\ ~loginLoading
    /\ loginPassword' = p
    /\ UNCHANGED <<loginUsername, loginLoading, loginError, loginInflight,
                   loginSettled, authVars, renderLog, regVars, okLog, appVars>>

\* the form submitted through its submit button
LoginClickSubmit ==
    /\ Screen = "login"
    /\ ~LoginSubmitDisabled
    /\ MayIssue
    /\ Len(loginInflight) < MaxInflight
    /\ LoginHandleSubmit
    /\ UNCHANGED <<authVars, renderLog, regVars, okLog, appVars>>

\* a handler that sends the request again when it has failed
LoginResponseRetries(i, resp) ==
    /\ i \in 1..Len(loginInflight)
    /\ loginSettled' = <<resp>>
    /\ okLog' = IF Resolved(resp) /\ resp.ok THEN Append(okLog, resp) ELSE okLog
    /\ IF LoginCallsOnLogin(resp)
       THEN /\ loginInflight' = RemoveAt(loginInflight, i)
            /\ SessionLogin(TokenOf(resp.body))
            /\ LoginMount
       ELSE /\ loginInflight' = Append(RemoveAt(loginInflight, i), loginInflight[i])
            /\ UNCHANGED <<authVars, loginUsername, loginPassword, loginLoading,
                           loginError>>
    /\ UNCHANGED <<renderLog, regVars, appVars>>

\* handleSubmit from the await of fetch() to the end of finally
LoginResponse(i, resp) ==
    /\ i \in 1..Len(loginInflight)
    /\ loginInflight' = RemoveAt(loginInflight, i)
    /\ loginSettled' = <<resp>>
    /\ okLog' = IF Resolved(resp) /\ resp.ok THEN Append(okLog, resp) ELSE okLog
    /\ IF LoginCallsOnLogin(resp)
       THEN /\ SessionLogin(TokenOf(resp.body))
            /\ LoginMount          \* Login is unmounted: its state is discarded
       ELSE /\ UNCHANGED authVars
            /\ IF Screen = "login"
               THEN /\ loginError' = LoginErrorFor(resp)
                    /\ loginLoading' = FALSE
                    /\ UNCHANGED <<loginUsername, loginPassword>>
               ELSE UNCHANGED <<loginUsername, loginPassword, loginLoading,
                                loginError>>
    /\ UNCHANGED <<renderLog, regVars, appVars>>

(***************************************************************************)
(* Register actions                                                        *)
(***************************************************************************)
RegTypeUsername(u) ==
    /\ Screen = "registration"
    /\ ~regLoading
    /\ Len(u) <= MaxUsernameLength          \* maxLength stops the typing
    /\ regUsername' = u
    /\ UNCHANGED <<regPassword, regConfirmPassword, regLoading, regError,
                   regInflight, regSettled, authVars, renderLog, loginVars, okLog, appVars>>

RegTypePassword(p) ==
    /\ Screen = "registration"
    /\ ~regLoading
    /\ regPassword' = p
    /\ UNCHANGED <<regUsername, regConfirmPassword, regLoading, regError,
                   regInflight, regSettled, authVars, renderLog, loginVars, okLog, appVars>>

RegTypeConfirmPassword(c) ==
    /\ Screen = "registration"
    /\ ~regLoading
    /\ regConfirmPassword' = c
    /\ UNCHANGED <<regUsername, regPassword, regLoading, regError,
                   regInflight, regSettled, authVars, renderLog, loginVars, okLog, appVars>>

\* the form submitted through its submit button
RegClickSubmit ==
    /\ Screen = "registration"
    /\ ~RegSubmitDisabled
    /\ RegFormConstraints
    /\ MayIssue
    /\ Len(regInflight) < MaxInflight
    /\ RegHandleSubmit("button")
    /\ UNCHANGED <<authVars, renderLog, loginVars, okLog, appVars>>

\* a submit event dispatched on the form itself: handleSubmit runs whatever
\* the button and the inputs' constraints say
RegDispatchSubmit ==
    /\ Screen = "registration"
    /\ MayIssue
    /\ Len(regInflight) < MaxInflight
    /\ RegHandleSubmit("dispatch")
    /\ UNCHANGED <<authVars, renderLog, loginVars, okLog, appVars>>

\* a change event dispatched on the username input: onChange runs with any value
RegDispatchUsernameChange(u) ==
    /\ Screen = "registration"
    /\ regUsername' = u
    /\ UNCHANGED <<regPassword, regConfirmPassword, regLoading, regError,
                   regInflight, regSettled, authVars, renderLog, loginVars, okLog, appVars>>

\* handleSubmit from the await of fetch() to the end of finally
RegResponse(i, resp) ==
    /\ i \in 1..Len(regInflight)
    /\ regInflight' = RemoveAt(regInflight, i)
    /\ regSettled' = <<resp>>
    /\ okLog' = IF Resolved(resp) /\ resp.ok THEN Append(okLog, resp) ELSE okLog
    /\ IF RegCallsOnRegister(resp)
       THEN /\ SessionLogin(TokenOf(resp.body))
            /\ RegisterMount       \* Register is unmounted: its state is discarded
       ELSE /\ UNCHANGED authVars
            /\ IF Screen = "registration"
               THEN /\ regError' = RegErrorFor(resp)
                    /\ regLoading' = FALSE
                    /\ UNCHANGED <<regUsername, regPassword, regConfirmPassword>>
               ELSE UNCHANGED <<regUsername, regPassword, regConfirmPassword,
                                regLoading, regError>>
    /\ UNCHANGED <<renderLog, loginVars, appVars>>

(***************************************************************************)
(* LLMSettings                                                             *)
(***************************************************************************)
LlmNoMessage == [type |-> "none", text |-> ""]      \* message === null
LlmMessage(type, text) == [type |-> type, text |-> text]

LlmSavedMessage == "LLM configuration saved successfully!"
LlmSaveFailedMessage == "Failed to save configuration"
LlmSaveRetryMessage == "Failed to save configuration. Please try again."

\* useState initial value of config
LlmDefaultConfig == [provider |-> "ollama", is_active |-> FALSE]

\* config.has_api_key as a condition: an absent field is undefined, falsy
HasApiKey(config) == "has_api_key" \in DOMAIN config /\ config.has_api_key

isFormValidKeyRequired(config, baseUrl, apiKey) ==
    IF config.provider = "ollama" THEN Trim(baseUrl) # <<>>
    ELSE IF config.provider = "openai" THEN Trim(apiKey) # <<>>
    ELSE FALSE

isFormValid(config, baseUrl, apiKey) ==
    IF config.provider = "ollama" THEN Trim(baseUrl) # <<>>
    ELSE IF config.provider = "openai" THEN Trim(apiKey) # <<>> \/ HasApiKey(config)
    ELSE FALSE

\* disabled={!isFormValid() || saving}
LlmSaveDisabled == ~isFormValid(llmConfig, llmBaseUrl, llmApiKey) \/ llmSaving

LlmPayloadKeepsActive(config, baseUrl, apiKey) ==
    IF config.provider = "ollama"
    THEN [provider |-> config.provider, is_active |-> config.is_active,
          base_url |-> baseUrl]
    ELSE IF config.provider = "openai"
    THEN [provider |-> config.provider, is_active |-> config.is_active,
          api_key |-> apiKey]
    ELSE [provider |-> config.provider, is_active |-> config.is_active]

\* the payload of handleSave: the spreads add the selected provider's field only
LlmPayload(config, baseUrl, apiKey) ==
    IF config.provider = "ollama"
    THEN [provider |-> config.provider, is_active |-> TRUE, base_url |-> baseUrl]
    ELSE IF config.provider = "openai"
    THEN [provider |-> config.provider, is_active |-> TRUE, api_key |-> apiKey]
    ELSE [provider |-> config.provider, is_active |-> TRUE]

\* handleSave up to the await of fetch(); the request keeps the config,
\* baseUrl and apiKey of the render whose handler ran
LlmHandleSave ==
    /\ llmSaving' = TRUE
    /\ llmMessage' = LlmNoMessage
    /\ llmSaveInflight' = Append(llmSaveInflight,
            [payload |-> LlmPayload(llmConfig, llmBaseUrl, llmApiKey),
             auth |-> token,
             config |-> llmConfig, baseUrl |-> llmBaseUrl, apiKey |-> llmApiKey])
    /\ UNCHANGED <<llmConfig, llmBaseUrl, llmApiKey, llmLoading, llmFetching>>

\* a load that leaves the base URL field empty
BaseUrlOfIgnored(data) == <<>>

\* data.base_url || ""
BaseUrlOf(data) == IF "base_url" \in DOMAIN data THEN data.base_url ELSE <<>>

\* --- inputs ---
LlmHost == <<"h", "t", "t", "p", ":", "/", "/", "h", ":", "1">>
LlmBaseUrls == {<<>>, <<" ">>, LlmHost}
LlmApiKeys == {<<>>, <<" ">>, <<"s", "k", "-", "1">>}
LlmProviders == {"ollama", "openai"}

\* configurations the server returns
ServerConfigs ==
    {[id |-> 1, provider |-> "ollama", base_url |-> LlmHost, is_active |-> TRUE],
     [id |-> 2, provider |-> "openai", has_api_key |-> TRUE, is_active |-> FALSE],
     [id |-> 3, provider |-> "openai", has_api_key |-> FALSE, is_active |-> TRUE],
     [id |-> 4, provider |-> "other", is_active |-> TRUE]}

ConfigBodies == {[json |-> TRUE, data |-> c] : c \in ServerConfigs}

HttpStatus(ok, status, body) ==
    [kind |-> "http", ok |-> ok, status |-> status, body |-> body]

\* the server rejects the bearer token of an authenticated call
AuthRejection == HttpStatus(FALSE, 401, [json |-> TRUE, error |-> "Unauthorized"])

LlmSaveResponses ==
    {NetworkFailure, AuthRejection}
    \cup {HttpResponse(TRUE, b) : b \in ConfigBodies \cup {NonJsonBody}}
    \cup {HttpResponse(FALSE, b) : b \in ErrorBodies \cup {NonJsonBody}}

LlmFetchResponses ==
    {NetworkFailure, AuthRejection}
    \cup {HttpStatus(TRUE, 200, b) : b \in ConfigBodies \cup {NonJsonBody}}
    \cup {HttpStatus(FALSE, st, [json |-> TRUE]) : st \in {404, 500}}

\* --- actions ---
\* a load that fills the key field when the server holds a key
LlmFetchResponseWritesKey(resp) ==
    /\ llmFetching
    /\ llmFetching' = FALSE
    /\ IF Resolved(resp) /\ resp.ok /\ Parses(resp)
       THEN /\ llmConfig' = resp.body.data
            /\ llmBaseUrl' = BaseUrlOf(resp.body.data)
            /\ llmApiKey' = IF HasApiKey(resp.body.data) THEN <<"*">> ELSE llmApiKey
       ELSE UNCHANGED <<llmConfig, llmBaseUrl, llmApiKey>>
    /\ llmLoading' = FALSE
    /\ UNCHANGED <<llmSaving, llmMessage, llmSaveInflight, ytVars, gateVars>>

\* fetchConfig from the await of fetch() to the end of finally
LlmFetchResponse(resp) ==
    /\ llmFetching
    /\ llmFetching' = FALSE
    /\ IF Resolved(resp) /\ resp.ok /\ Parses(resp)
       THEN /\ llmConfig' = resp.body.data
            /\ llmBaseUrl' = BaseUrlOf(resp.body.data)
       ELSE UNCHANGED <<llmConfig, llmBaseUrl>>
    /\ llmLoading' = FALSE
    /\ UNCHANGED <<llmApiKey, llmSaving, llmMessage, llmSaveInflight,
                   ytVars, gateVars>>

\* the form is rendered once loading is false
LlmFormShown == Screen = "content" /\ ~llmLoading

LlmSelectProvider(p) ==
    /\ LlmFormShown
    /\ llmConfig' = [llmConfig EXCEPT !.provider = p]
    /\ UNCHANGED <<llmBaseUrl, llmApiKey, llmLoading, llmSaving, llmMessage,
                   llmFetching, llmSaveInflight, ytVars, gateVars>>

LlmTypeBaseUrl(u) ==
    /\ LlmFormShown
    /\ llmConfig.provider = "ollama"
    /\ llmBaseUrl' = u
    /\ UNCHANGED <<llmConfig, llmApiKey, llmLoading, llmSaving, llmMessage,
                   llmFetching, llmSaveInflight, ytVars, gateVars>>

LlmTypeApiKey(k) ==
    /\ LlmFormShown
    /\ llmConfig.provider = "openai"
    /\ llmApiKey' = k
    /\ UNCHANGED <<llmConfig, llmBaseUrl, llmLoading, llmSaving, llmMessage,
                   llmFetching, llmSaveInflight, ytVars, gateVars>>

\* the Save Configuration button
LlmClickSave ==
    /\ LlmFormShown
    /\ ~LlmSaveDisabled
    /\ Len(llmSaveInflight) < MaxInflight
    /\ LlmHandleSave
    /\ UNCHANGED <<ytVars, gateVars>>

\* a success branch that leaves the key field alone
LlmApiKeyAfterSaveKept(saved) == llmApiKey

\* if (config.provider === "openai") setApiKey(""), with the config of the
\* render whose handler ran
LlmApiKeyAfterSave(saved) ==
    IF saved.config.provider = "openai" THEN <<>> ELSE llmApiKey

\* an error text that never uses the server's
LlmSaveErrorForNoServerText(resp) == LlmSaveRetryMessage

\* the text of the error message: else branch and catch of handleSave
LlmSaveErrorFor(resp) ==
    IF Resolved(resp) /\ ~resp.ok /\ Parses(resp)
    THEN ErrorOr(resp.body, LlmSaveFailedMessage)
    ELSE LlmSaveRetryMessage

\* handleSave from the await of fetch() to the end of finally
LlmSaveResponse(i, resp) ==
    /\ i \in 1..Len(llmSaveInflight)
    /\ llmSaveInflight' = RemoveAt(llmSaveInflight, i)
    /\ IF Resolved(resp) /\ resp.ok /\ Parses(resp) THEN
            /\ llmConfig' = resp.body.data
            /\ llmMessage' = LlmMessage("success", LlmSavedMessage)
            /\ llmApiKey' = LlmApiKeyAfterSave(llmSaveInflight[i])
       ELSE
            /\ llmMessage' = LlmMessage("error", LlmSaveErrorFor(resp))
            /\ UNCHANGED <<llmConfig, llmApiKey>>
    /\ llmSaving' = FALSE
    /\ UNCHANGED <<llmBaseUrl, llmLoading, llmFetching, ytVars, gateVars>>

\* LLMSettings mounted: useEffect has called fetchConfig
LlmInit ==
    /\ llmConfig = LlmDefaultConfig
    /\ llmBaseUrl = <<>> /\ llmApiKey = <<>>
    /\ llmLoading = TRUE /\ llmSaving = FALSE
    /\ llmMessage = LlmNoMessage
    /\ llmFetching = TRUE
    /\ llmSaveInflight = <<>>

NextLLM ==
    \/ \E resp \in LlmFetchResponses : LlmFetchResponse(resp)
    \/ \E p \in LlmProviders : LlmSelectProvider(p)
    \/ \E u \in LlmBaseUrls : LlmTypeBaseUrl(u)
    \/ \E k \in LlmApiKeys : LlmTypeApiKey(k)
    \/ LlmClickSave
    \/ \E i \in 1..MaxInflight, resp \in LlmSaveResponses : LlmSaveResponse(i, resp)

(***************************************************************************)
(* YouTubeDownloadDialog                                                   *)
(***************************************************************************)
Null == "null"                   \* the null of useState<string | null>(null)

YOUTUBE_COM == <<"y", "o", "u", "t", "u", "b", "e", ".", "c", "o", "m">>
YOUTU_BE == <<"y", "o", "u", "t", "u", ".", "b", "e">>

YtEnterUrlMessage == "Please enter a YouTube URL"
YtInvalidUrlMessage == "Please enter a valid YouTube URL"
YtFailedMessage == "Failed to download YouTube audio"
YtNetworkErrorMessage == "Network error occurred. Please try again."

validateYouTubeUrlDotComOnly(url) == Includes(url, YOUTUBE_COM)

validateYouTubeUrl(url) == Includes(url, YOUTUBE_COM) \/ Includes(url, YOUTU_BE)

\* JSON.stringify({url: url.trim(), title: title.trim() || undefined})
\* a body that always carries a title
YtRequestBodyAlwaysTitle(url, title) == [url |-> Trim(url), title |-> Trim(title)]

YtRequestBody(url, title) ==
    IF Trim(title) # <<>>
    THEN [url |-> Trim(url), title |-> Trim(title)]
    ELSE [url |-> Trim(url)]

\* handleSubmit up to its first return or the await of fetch()
YtHandleSubmit ==
    /\ IF Trim(ytUrl) = <<>> THEN
            /\ ytError' = YtEnterUrlMessage
            /\ UNCHANGED <<ytIsDownloading, ytInflight>>
       ELSE IF ~validateYouTubeUrl(ytUrl) THEN
            /\ ytError' = YtInvalidUrlMessage
            /\ UNCHANGED <<ytIsDownloading, ytInflight>>
       ELSE
            /\ ytIsDownloading' = TRUE
            /\ ytError' = Null
            /\ ytInflight' = Append(ytInflight,
                    [body |-> YtRequestBody(ytUrl, ytTitle), auth |-> token])
    /\ ytCallbacks' = <<>>
    /\ UNCHANGED <<ytIsOpen, ytUrl, ytTitle, ytSuccess, ytTimers>>

\* handleClose; onClose() makes the parent pass isOpen = false
YtHandleClose ==
    /\ ytUrl' = <<>>
    /\ ytTitle' = <<>>
    /\ ytError' = Null
    /\ ytSuccess' = FALSE
    /\ ytIsDownloading' = FALSE
    /\ ytIsOpen' = FALSE

\* the video identifier: /(?:youtube\.com\/(?:[^\/]+\/.+\/|(?:v|e(?:mbed)?)\/|
\* .*[?&]v=)|youtu\.be\/)([^"&?\/\s]{11})/
VideoIdLength == 11
NoVideoId == <<>>                \* the null of a failed match

SetMax(S) == CHOOSE x \in S : \A y \in S : y <= x
SetMin(S) == CHOOSE x \in S : \A y \in S : x <= y

StartsAt(s, i, lit) ==
    i + Len(lit) - 1 <= Len(s) /\ SubSeq(s, i, i + Len(lit) - 1) = lit

\* [^"&?\/\s]{11} at position k
IdAt(s, k) ==
    /\ k + VideoIdLength - 1 <= Len(s)
    /\ \A j \in k..(k + VideoIdLength - 1) :
            s[j] \notin ({"\"", "&", "?", "/"} \cup Whitespace)

\* where the group starts when the text after "youtube.com/" begins at q,
\* 0 when none of the three shapes matches; quantifiers are greedy and the
\* alternatives are tried in order
CaptureAfterDomain(s, q) ==
    LET slashes == {f \in (q + 1)..Len(s) : s[f] = "/"}
        pathShape ==
            IF q <= Len(s) /\ s[q] # "/" /\ slashes # {}
            THEN {g \in (SetMin(slashes) + 2)..Len(s) :
                        s[g] = "/" /\ IdAt(s, g + 1)}
            ELSE {}
        shortShape ==
            IF (StartsAt(s, q, <<"v", "/">>) \/ StartsAt(s, q, <<"e", "/">>))
                    /\ IdAt(s, q + 2)
            THEN {q + 2}
            ELSE IF StartsAt(s, q, <<"e", "m", "b", "e", "d", "/">>)
                    /\ IdAt(s, q + 6)
            THEN {q + 6}
            ELSE {}
        queryShape ==
            {h \in q..Len(s) :
                /\ s[h] \in {"?", "&"}
                /\ StartsAt(s, h + 1, <<"v", "=">>)
                /\ IdAt(s, h + 3)}
    IN  IF pathShape # {} THEN SetMax(pathShape) + 1
        ELSE IF shortShape # {} THEN SetMax(shortShape)
        ELSE IF queryShape # {} THEN SetMax(queryShape) + 3
        ELSE 0

\* where the group starts for a match that begins at i, 0 when there is none
MatchAt(s, i) ==
    IF StartsAt(s, i, YOUTUBE_COM \o <<"/">>)
    THEN CaptureAfterDomain(s, i + Len(YOUTUBE_COM) + 1)
    ELSE IF StartsAt(s, i, YOUTU_BE \o <<"/">>)
            /\ IdAt(s, i + Len(YOUTU_BE) + 1)
    THEN i + Len(YOUTU_BE) + 1
    ELSE 0

getYouTubeVideoId(url) ==
    LET starts == {i \in 1..Len(url) : MatchAt(url, i) # 0}
    IN  IF starts = {} THEN NoVideoId
        ELSE SubSeq(url, MatchAt(url, SetMin(starts)),
                    MatchAt(url, SetMin(starts)) + VideoIdLength - 1)

\* --- inputs ---
ShortUrl ==
    <<"h", "t", "t", "p", "s", ":", "/", "/", "y", "o", "u", "t", "u", ".",
      "b", "e", "/", "d", "Q", "w", "4", "w", "9", "W", "g", "X", "c", "Q">>
WatchUrl ==
    <<"h", "t", "t", "p", "s", ":", "/", "/", "w", "w", "w", ".", "y", "o",
      "u", "t", "u", "b", "e", ".", "c", "o", "m", "/", "w", "a", "t", "c",
      "h", "?", "v", "=", "d", "Q", "w", "4", "w", "9", "W", "g", "X", "c",
      "Q">>
PlaylistUrl ==
    <<"h", "t", "t", "p", "s", ":", "/", "/", "y", "o", "u", "t", "u", "b",
      "e", ".", "c", "o", "m", "/", "p", "l", "a", "y", "l", "i", "s", "t">>
OtherSiteUrl ==
    <<"h", "t", "t", "p", "s", ":", "/", "/", "e", "x", "a", "m", "p", "l",
      "e", ".", "c", "o", "m", "/", "v", "i", "d", "e", "o">>
YtUrls == {<<>>, <<" ", " ">>, ShortUrl, WatchUrl, PlaylistUrl, OtherSiteUrl}
YtTitles == {<<>>, <<" ">>, <<" ", "T", " ">>}

YtResponses ==
    {NetworkFailure, AuthRejection, HttpResponse(TRUE, [json |-> TRUE])}
    \cup {HttpResponse(FALSE, b) : b \in ErrorBodies \cup {NonJsonBody}}

\* --- actions ---
\* the parent renders the dialog with isOpen = true
YtOpen ==
    /\ Screen = "content"
    /\ ~ytIsOpen
    /\ ytIsOpen' = TRUE
    /\ ytCallbacks' = <<>>
    /\ UNCHANGED <<ytUrl, ytTitle, ytIsDownloading, ytError, ytSuccess,
                   ytInflight, ytTimers, llmVars, gateVars>>

\* the form is on screen: the dialog is open and not showing "Download Complete!"
YtFormShown == ytIsOpen /\ ~ytSuccess

YtTypeUrl(u) ==
    /\ YtFormShown
    /\ ~ytIsDownloading
    /\ ytUrl' = u
    /\ ytCallbacks' = <<>>
    /\ UNCHANGED <<ytIsOpen, ytTitle, ytIsDownloading, ytError, ytSuccess,
                   ytInflight, ytTimers, llmVars, gateVars>>

YtTypeTitle(t) ==
    /\ YtFormShown
    /\ ~ytIsDownloading
    /\ ytTitle' = t
    /\ ytCallbacks' = <<>>
    /\ UNCHANGED <<ytIsOpen, ytUrl, ytIsDownloading, ytError, ytSuccess,
                   ytInflight, ytTimers, llmVars, gateVars>>

YtSubmitDisabled == ytIsDownloading \/ Trim(ytUrl) = <<>>

\* asynchronous work the dialog has room for in a bounded run
YtMayIssue == Len(ytInflight) + ytTimers < MaxInflight

\* the form submitted through the Download button
YtClickSubmit ==
    /\ YtFormShown
    /\ ~YtSubmitDisabled
    /\ YtMayIssue
    /\ YtHandleSubmit
    /\ UNCHANGED <<llmVars, gateVars>>

\* a submit event dispatched on the form itself
YtDispatchSubmit ==
    /\ YtFormShown
    /\ YtMayIssue
    /\ YtHandleSubmit
    /\ UNCHANGED <<llmVars, gateVars>>

\* the Cancel button
YtClickCancel ==
    /\ YtFormShown
    /\ ~ytIsDownloading
    /\ YtHandleClose
    /\ ytCallbacks' = <<"onClose">>
    /\ UNCHANGED <<ytInflight, ytTimers, llmVars, gateVars>>

\* Dialog's onOpenChange: Escape, a click outside, the close button
YtDismiss ==
    /\ ytIsOpen
    /\ YtHandleClose
    /\ ytCallbacks' = <<"onClose">>
    /\ UNCHANGED <<ytInflight, ytTimers, llmVars, gateVars>>

\* a handler that drops the response of a dialog that has been closed
YtResponseDroppedWhenClosed(i, resp) ==
    /\ i \in 1..Len(ytInflight)
    /\ ytInflight' = RemoveAt(ytInflight, i)
    /\ IF ~ytIsOpen THEN
            UNCHANGED <<ytSuccess, ytTimers, ytError, ytIsDownloading>>
       ELSE IF Resolved(resp) /\ resp.ok THEN
            /\ ytSuccess' = TRUE
            /\ ytTimers' = ytTimers + 1
            /\ ytIsDownloading' = FALSE
            /\ UNCHANGED ytError
       ELSE
            /\ ytError' = IF Parses(resp)
                          THEN ErrorOr(resp.body, YtFailedMessage)
                          ELSE YtNetworkErrorMessage
            /\ ytIsDownloading' = FALSE
            /\ UNCHANGED <<ytSuccess, ytTimers>>
    /\ ytCallbacks' = <<>>
    /\ UNCHANGED <<ytIsOpen, ytUrl, ytTitle, llmVars, gateVars>>

\* handleSubmit from the await of fetch() to the end of finally
YtResponse(i, resp) ==
    /\ i \in 1..Len(ytInflight)
    /\ ytInflight' = RemoveAt(ytInflight, i)
    /\ IF Resolved(resp) /\ resp.ok THEN
            /\ ytSuccess' = TRUE
            /\ ytTimers' = ytTimers + 1
            /\ UNCHANGED ytError
       ELSE
            /\ ytError' = IF Parses(resp)
                          THEN ErrorOr(resp.body, YtFailedMessage)
                          ELSE YtNetworkErrorMessage
            /\ UNCHANGED <<ytSuccess, ytTimers>>
    /\ ytIsDownloading' = FALSE
    /\ ytCallbacks' = <<>>
    /\ UNCHANGED <<ytIsOpen, ytUrl, ytTitle, llmVars, gateVars>>

\* a timer callback that notifies the caller without closing the dialog
YtAutoCloseNotifyOnly ==
    /\ ytTimers > 0
    /\ ytTimers' = ytTimers - 1
    /\ ytCallbacks' = <<"onDownloadComplete">>
    /\ UNCHANGED <<ytIsOpen, ytUrl, ytTitle, ytIsDownloading, ytError, ytSuccess,
                   ytInflight, llmVars, gateVars>>

\* the setTimeout callback: handleClose(), then onDownloadComplete?.()
YtAutoClose ==
    /\ ytTimers > 0
    /\ ytTimers' = ytTimers - 1
    /\ YtHandleClose
    /\ ytCallbacks' = <<"onClose", "onDownloadComplete">>
    /\ UNCHANGED <<ytInflight, llmVars, gateVars>>

YtInit ==
    /\ ytIsOpen = FALSE
    /\ ytUrl = <<>> /\ ytTitle = <<>>
    /\ ytIsDownloading = FALSE /\ ytError = Null /\ ytSuccess = FALSE
    /\ ytInflight = <<>> /\ ytTimers = 0 /\ ytCallbacks = <<>>

AppInit == YtInit /\ LlmInit

(***************************************************************************)
(* Specifications                                                          *)
(***************************************************************************)
\* a session that the gate has admitted
Admitted ==
    /\ isInitialized = TRUE
    /\ requiresRegistration = FALSE
    /\ isAuthenticated = TRUE
    /\ renderLog = <<>>

\* the dialog as a user drives it
NextYT ==
    \/ YtOpen
    \/ \E u \in YtUrls : YtTypeUrl(u)
    \/ \E t \in YtTitles : YtTypeTitle(t)
    \/ YtClickSubmit
    \/ YtClickCancel
    \/ YtDismiss
    \/ \E i \in 1..MaxInflight, resp \in YtResponses : YtResponse(i, resp)
    \/ YtAutoClose

\* the dialog with its submit handler also run by events dispatched on the form
NextYTForm == NextYT \/ YtDispatchSubmit

FormsInit ==
    /\ loginUsername = <<>> /\ loginPassword = <<>>
    /\ loginLoading = FALSE /\ loginError = ""
    /\ loginInflight = <<>> /\ loginSettled = <<>>
    /\ regUsername = <<>> /\ regPassword = <<>> /\ regConfirmPassword = <<>>
    /\ regLoading = FALSE /\ regError = ""
    /\ regInflight = <<>> /\ regSettled = <<>>
    /\ okLog = <<>>
    /\ loginCalls = <<>>
    /\ AppInit

\* ProtectedRoute alone, over every value useAuth() can hand it
InitGate ==
    /\ isInitialized \in BOOLEAN
    /\ requiresRegistration \in BOOLEAN
    /\ isAuthenticated \in BOOLEAN
    /\ renderLog = <<ProtectedRoute(isInitialized, requiresRegistration,
                                    isAuthenticated)>>
    /\ token = ""
    /\ FormsInit

NextGate ==
    \E i, r, a \in BOOLEAN : UseAuthUpdate(i, r, a)

SpecGate == InitGate /\ [][NextGate]_vars

\* the application as a user drives it: the gate, Login and Register
InitAuth ==
    /\ isInitialized = FALSE
    /\ requiresRegistration = FALSE
    /\ isAuthenticated = FALSE
    /\ renderLog = <<>>
    /\ token = ""
    /\ FormsInit

NextAuth ==
    \/ \E o \in InitOutcomes : InitCheckSettles(o)
    \/ Logout
    \/ \E u \in LoginTexts : LoginTypeUsername(u)
    \/ \E p \in LoginTexts : LoginTypePassword(p)
    \/ LoginClickSubmit
    \/ \E i \in 1..MaxInflight, resp \in AuthResponses : LoginResponse(i, resp)
    \/ \E u \in RegUsernames : RegTypeUsername(u)
    \/ \E p \in RegPasswords : RegTypePassword(p)
    \/ \E c \in RegConfirms : RegTypeConfirmPassword(c)
    \/ RegClickSubmit
    \/ \E i \in 1..MaxInflight, resp \in AuthResponses : RegResponse(i, resp)

SpecAuth == InitAuth /\ [][NextAuth]_vars

\* Register mounted by the gate, its handlers also run by events dispatched
\* on the form
InitRegister ==
    /\ isInitialized = TRUE
    /\ requiresRegistration = TRUE
    /\ isAuthenticated = FALSE
    /\ renderLog = <<>>
    /\ token = ""
    /\ FormsInit

NextRegister ==
    \/ \E u \in RegUsernames : RegTypeUsername(u)
    \/ \E p \in RegPasswords : RegTypePassword(p)
    \/ \E c \in RegConfirms : RegTypeConfirmPassword(c)
    \/ RegClickSubmit
    \/ RegDispatchSubmit
    \/ \E u \in RegUsernames : RegDispatchUsernameChange(u)
    \/ \E i \in 1..MaxInflight, resp \in AuthResponses : RegResponse(i, resp)

SpecRegister == InitRegister /\ [][NextRegister]_vars

\* the components behind the gate, for a session the gate has admitted
InitApp == Admitted /\ token \in Tokens /\ FormsInit

SpecYT == InitApp /\ [][NextYT]_vars

\* the dialog with the browser's guarantee that a timer that was set fires
SpecYTTimers == InitApp /\ [][NextYT]_vars /\ WF_vars(YtAutoClose)

SpecYTForm == InitApp /\ [][NextYTForm]_vars

SpecLLM == InitApp /\ [][NextLLM]_vars

(***************************************************************************)
(* Properties                                                              *)
(***************************************************************************)
Last(seq) == seq[Len(seq)]

\* C1: for every (isInitialized, requiresRegistration, isAuthenticated) the
\* gate renders exactly one of the four screens, by strict priority: not
\* initialized -> loading; else requiresRegistration -> registration, whatever
\* isAuthenticated is; else not authenticated -> login; else content.
C1_GatePriority ==
    /\ renderLog # <<>>
    /\ Last(renderLog) \in Screens
    /\ ~isInitialized => Last(renderLog) = "loading"
    /\ isInitialized /\ requiresRegistration => Last(renderLog) = "registration"
    /\ isInitialized /\ ~requiresRegistration /\ ~isAuthenticated
            => Last(renderLog) = "login"
    /\ isInitialized /\ ~requiresRegistration /\ isAuthenticated
            => Last(renderLog) = "content"

\* a re-render with registration required and a session already authenticated
C1_Witness ==
    /\ Len(renderLog) >= 2
    /\ isInitialized /\ requiresRegistration /\ isAuthenticated
    /\ Last(renderLog) = "registration"

\* the five password rules, each stated on its own
AllFiveRules(pwd) ==
    LET strength == checkPasswordStrength(pwd) IN
    /\ strength.hasMinLength
    /\ strength.hasUppercase
    /\ strength.hasLowercase
    /\ strength.hasNumber
    /\ strength.hasSpecialChar

RegLocallyInvalid ==
    \/ ~AllFiveRules(regPassword)
    \/ regConfirmPassword = <<>>
    \/ regConfirmPassword # regPassword

\* C2: with a password that fails one of the five rules, or a confirmation
\* that is empty or differs, no step issues the register request and loading
\* is and stays false; a submit in that state sets the matching error message.
C2_RejectedLocally ==
    [][RegLocallyInvalid =>
        /\ Len(regInflight') <= Len(regInflight)
        /\ ~regLoading /\ ~regLoading'
        /\ (RegHandleSubmit("button") \/ RegHandleSubmit("dispatch")) =>
                regError' = IF ~AllFiveRules(regPassword)
                            THEN RegPasswordRequirementsMessage
                            ELSE RegPasswordsDoNotMatchMessage]_vars

\* the handler has rejected the password "abc" and nothing was ever sent
C2_Witness ==
    /\ regPassword = ShortPassword
    /\ regError = RegPasswordRequirementsMessage
    /\ ~regLoading
    /\ regInflight = <<>> /\ regSettled = <<>> /\ okLog = <<>>

UsernameLengthOk(r) ==
    Len(r.username) >= MinUsernameLength /\ Len(r.username) <= MaxUsernameLength

\* C5 as stated: the submit handler re-validates the username length, so no
\* register request carries a username shorter than 3 or longer than 50.
C5_HandlerChecksUsernameLength ==
    \A i \in 1..Len(regInflight) : UsernameLengthOk(regInflight[i])

\* C5 amended: a register request issued through the form's submit button
\* carries a username of 3 to 50 characters, which the username input's
\* required, minLength and maxLength constraints enforce; the handler itself
\* does not look at the username.
C5_UsernameLengthViaForm ==
    \A i \in 1..Len(regInflight) :
        regInflight[i].via = "button" => UsernameLengthOk(regInflight[i])

\* a request sent through the button with a username of exactly 50 characters
C5_Witness ==
    \E i \in 1..Len(regInflight) :
        /\ regInflight[i].via = "button"
        /\ Len(regInflight[i].username) = MaxUsernameLength

\* the last response Login consumed, while Login is still on screen
LoginShowsOutcomeOf(resp) == loginSettled = <<resp>> /\ Screen = "login"

\* C9: after a non-2xx response the error shown is the server's message
\* verbatim, or "Login failed" when the response carries none; after a
\* transport failure it is the fixed network-error message, which is never
\* shown for a response the server returned.
C9_NetworkErrorOnlyForTransport ==
    \A resp \in AuthResponses :
        LoginShowsOutcomeOf(resp) =>
            /\ Resolved(resp) /\ ~resp.ok =>
                    loginError = IF "error" \in DOMAIN resp.body
                                    /\ resp.body.error # ""
                                 THEN resp.body.error
                                 ELSE LoginFailedMessage
            /\ resp = NetworkFailure => loginError = LoginNetworkErrorMessage
            /\ Resolved(resp) => loginError # LoginNetworkErrorMessage

RECURSIVE ParsedTokens(_)
\* the tokens of the 2xx responses whose body parsed, in order
ParsedTokens(log) ==
    IF log = <<>> THEN <<>>
    ELSE (IF Head(log).body.json THEN <<TokenOf(Head(log).body)>> ELSE <<>>)
         \o ParsedTokens(Tail(log))

\* C10 as stated: the login action is invoked exactly once per 2xx login or
\* registration response.
C10_OncePer2xxResponse == Len(loginCalls) = Len(okLog)

\* C10 amended: the login action is invoked only for a 2xx login or
\* registration response whose JSON body parsed, exactly once per such
\* response and with the token field of its body; nothing else invokes it (a non-2xx response, a
\* network failure, a 2xx response whose body does not parse, a local
\* rejection), and the gate shows the content only after such a response.
C10_LoginOnlyOnSuccess ==
    /\ loginCalls = ParsedTokens(okLog)
    /\ isAuthenticated => loginCalls # <<>> /\ token = Last(loginCalls)
    /\ Screen = "content" => isAuthenticated

\* registered, logged out and logged in again: two calls, two tokens
C10_Witness ==
    /\ Len(loginCalls) = 2
    /\ Screen = "content"
    /\ token = loginCalls[2]

\* C3: in every reachable state each workflow (login, registration, LLM
\* config save, media import) has at most one request in flight.
C3_AtMostOneInFlight ==
    /\ Len(loginInflight) <= 1
    /\ Len(regInflight) <= 1
    /\ Len(llmSaveInflight) <= 1
    /\ Len(ytInflight) <= 1

YtFieldsInitial ==
    /\ ytUrl = <<>> /\ ytTitle = <<>>
    /\ ytError = Null /\ ytSuccess = FALSE /\ ytIsDownloading = FALSE

\* C4: once the dialog is closed, url, title, error, success and pending are
\* at their initial values and stay there until it is next opened: nothing
\* left over from the closed invocation changes them.
C4_ClosedDialogIsReset == ~ytIsOpen => YtFieldsInitial

NonBlank(s) == \E i \in 1..Len(s) : s[i] \notin Whitespace

YtUrlAccepted ==
    NonBlank(ytUrl) /\ (Includes(ytUrl, YOUTUBE_COM) \/ Includes(ytUrl, YOUTU_BE))

\* C6: a submit of the media-import form issues a request if and only if the
\* URL is non-blank and contains one of the two recognized domains; otherwise
\* it sets a validation message, pending is and stays false and nothing is
\* sent. The test does not look at the video identifier.
C6_SubmitAcceptsByDomain ==
    [][YtHandleSubmit =>
        IF YtUrlAccepted
        THEN /\ Len(ytInflight') = Len(ytInflight) + 1
             /\ Last(ytInflight').body.url = Trim(ytUrl)
             /\ ytIsDownloading'
        ELSE /\ ytInflight' = ytInflight
             /\ ytError' = IF NonBlank(ytUrl) THEN YtInvalidUrlMessage
                           ELSE YtEnterUrlMessage
             /\ ~ytIsDownloading /\ ~ytIsDownloading']_vars

\* a request is in flight for a URL from which no identifier can be extracted,
\* while the identifier of the youtu.be URL is the one after its last slash
C6_Witness ==
    /\ ytInflight # <<>>
    /\ ytIsDownloading
    /\ ytUrl = PlaylistUrl
    /\ getYouTubeVideoId(ytUrl) = NoVideoId
    /\ getYouTubeVideoId(ShortUrl) = SubSeq(ShortUrl, 18, 28)
    /\ getYouTubeVideoId(OtherSiteUrl) = NoVideoId

\* the provider-specific rule, stated on its own
ProviderRule(config, baseUrl, apiKey) ==
    \/ config.provider = "ollama" /\ NonBlank(baseUrl)
    \/ /\ config.provider = "openai"
       /\ \/ NonBlank(apiKey)
          \/ "has_api_key" \in DOMAIN config /\ config.has_api_key = TRUE

\* C7: the save control is enabled iff no save is pending and the
\* provider-specific rule holds, and every save request was issued from a
\* state in which the rule held.
C7_SaveEnabledRule ==
    /\ (LlmFormShown /\ ~LlmSaveDisabled)
            <=> (llmSaveInflight = <<>> /\ ~llmSaving
                 /\ ProviderRule(llmConfig, llmBaseUrl, llmApiKey))
    /\ \A i \in 1..Len(llmSaveInflight) :
            ProviderRule(llmSaveInflight[i].config, llmSaveInflight[i].baseUrl,
                         llmSaveInflight[i].apiKey)

\* a save sent for the hosted-api provider with an empty key field, on the
\* strength of the server's has_api_key marker
C7_Witness ==
    \E i \in 1..Len(llmSaveInflight) :
        /\ llmSaveInflight[i].config.provider = "openai"
        /\ llmSaveInflight[i].apiKey = <<>>
        /\ HasApiKey(llmSaveInflight[i].config)

\* C8: every save request carries the selected provider, is_active = true
\* whatever is_active was, and the field of the selected provider only.
C8_SavePayloadShape ==
    \A i \in 1..Len(llmSaveInflight) :
        LET r == llmSaveInflight[i] IN
        /\ r.payload.provider = r.config.provider
        /\ r.payload.is_active = TRUE
        /\ r.config.provider \in {"ollama", "openai"}
        /\ r.config.provider = "ollama" =>
                /\ DOMAIN r.payload = {"provider", "is_active", "base_url"}
                /\ r.payload.base_url = r.baseUrl
        /\ r.config.provider = "openai" =>
                /\ DOMAIN r.payload = {"provider", "is_active", "api_key"}
                /\ r.payload.api_key = r.apiKey

\* a save of the hosted-api provider over a configuration that was inactive
C8_Witness ==
    \E i \in 1..Len(llmSaveInflight) :
        /\ llmSaveInflight[i].config.provider = "openai"
        /\ llmSaveInflight[i].config.is_active = FALSE
        /\ llmSaveInflight[i].payload.is_active = TRUE

\* C11: a 2xx import response shows the complete display and sets the timer;
\* the timer's callback, with no user action, closes the dialog (fields reset,
\* onClose invoked) and then invokes onDownloadComplete, in that order, and
\* every complete display is eventually followed by that close and notification.
C11_SuccessThenCloseThenNotify ==
    /\ [][/\ (ytSuccess' /\ ~ytSuccess) => ytTimers' = ytTimers + 1
          /\ ytTimers' < ytTimers =>
                /\ ytCallbacks' = <<"onClose", "onDownloadComplete">>
                /\ ~ytIsOpen'
                /\ ytUrl' = <<>> /\ ytTitle' = <<>> /\ ytError' = Null
                /\ ~ytSuccess' /\ ~ytIsDownloading'
          /\ (\E k \in 1..Len(ytCallbacks') : ytCallbacks'[k] = "onDownloadComplete")
                => ytTimers' < ytTimers]_vars
    /\ ytSuccess ~> (ytCallbacks = <<"onClose", "onDownloadComplete">> /\ ~ytIsOpen)

\* the timer of a complete display has fired: closed, then the caller notified
C11_Witness ==
    /\ ytCallbacks = <<"onClose", "onDownloadComplete">>
    /\ ~ytIsOpen /\ ~ytSuccess
    /\ ytTimers = 0 /\ ytInflight = <<>>

\* the save response is a 2xx one that carries a configuration
LlmSaveSucceeded(resp) == resp # NetworkFailure /\ resp.ok /\ resp.body.json

\* C12: after a successful save the local configuration is the one the server
\* returned; the key field is empty if the saved provider is openai and is left
\* as it was if it is ollama.
C12_SaveSuccessReplacesConfig ==
    [][\A i \in 1..Len(llmSaveInflight), resp \in LlmSaveResponses :
        (LlmSaveResponse(i, resp) /\ LlmSaveSucceeded(resp)) =>
            /\ llmConfig' = resp.body.data
            /\ llmSaveInflight[i].payload.provider = "openai" => llmApiKey' = <<>>
            /\ llmSaveInflight[i].payload.provider = "ollama" => llmApiKey' = llmApiKey
            /\ llmSaveInflight[i].payload.provider \in {"ollama", "openai"}]_vars

\* an openai save has succeeded: the key field is empty, the server's
\* configuration is the local one
C12_Witness ==
    /\ llmMessage = LlmMessage("success", LlmSavedMessage)
    /\ llmConfig \in ServerConfigs /\ llmConfig.provider = "openai"
    /\ llmApiKey = <<>>
    /\ llmSaveInflight = <<>> /\ ~llmSaving

\* the save response is a non-2xx one or the request failed in transport
LlmSaveFailed(resp) == resp = NetworkFailure \/ ~resp.ok

\* C13: after a failed save the configuration, the base URL field and the key
\* field are as they were, an error-type message is shown (the server's text,
\* else a default) and saving is false.
C13_SaveFailureKeepsState ==
    [][\A i \in 1..Len(llmSaveInflight), resp \in LlmSaveResponses :
        (LlmSaveResponse(i, resp) /\ LlmSaveFailed(resp)) =>
            /\ UNCHANGED <<llmConfig, llmBaseUrl, llmApiKey>>
            /\ llmMessage'.type = "error"
            /\ llmMessage'.text =
                    IF resp # NetworkFailure /\ "error" \in DOMAIN resp.body
                       /\ resp.body.error # ""
                    THEN resp.body.error
                    ELSE IF resp # NetworkFailure /\ resp.body.json
                    THEN LlmSaveFailedMessage
                    ELSE LlmSaveRetryMessage
            /\ ~llmSaving']_vars

\* a rejected save shows the server's text, the typed key still in its field
C13_Witness ==
    /\ llmMessage = LlmMessage("error", "Invalid credentials")
    /\ llmConfig.provider = "openai" /\ llmApiKey # <<>>
    /\ llmSaveInflight = <<>> /\ ~llmSaving

\* the load response is a 2xx one that carries a configuration
LlmLoadSucceeded(resp) == resp # NetworkFailure /\ resp.ok /\ resp.body.json

\* C14: when the load settles, whatever its outcome, loading becomes false and
\* the form is shown; on 2xx the configuration and the base URL are the
\* server's, on every other outcome they keep their defaults; no message is
\* shown. Loading is true exactly while the load is awaited.
C14_LoadSettles ==
    /\ [][\A resp \in LlmFetchResponses :
            LlmFetchResponse(resp) =>
                /\ llmLoading /\ ~llmLoading' /\ LlmFormShown'
                /\ llmMessage' = LlmNoMessage
                /\ IF LlmLoadSucceeded(resp)
                   THEN /\ llmConfig' = resp.body.data
                        /\ llmBaseUrl' = IF "base_url" \in DOMAIN resp.body.data
                                         THEN resp.body.data.base_url ELSE <<>>
                   ELSE /\ llmConfig' = [provider |-> "ollama", is_active |-> FALSE]
                        /\ llmBaseUrl' = <<>>]_vars
    /\ [](llmLoading <=> llmFetching)
    /\ [][~llmLoading => ~llmLoading']_vars

\* the load met a server error: the form is shown with the defaults
C14_Witness ==
    /\ ~llmLoading /\ ~llmFetching
    /\ llmConfig = LlmDefaultConfig /\ llmBaseUrl = <<>>
    /\ llmMessage = LlmNoMessage
    /\ LlmFormShown

\* C18: an authentication-rejection response to an authenticated call (load,
\* save, media import) logs the session out: the token is cleared and the gate
\* shows the login screen.
C18_AuthRejectionLogsOut ==
    [][(\/ LlmFetchResponse(AuthRejection)
        \/ \E i \in 1..Len(llmSaveInflight) : LlmSaveResponse(i, AuthRejection)
        \/ \E i \in 1..Len(ytInflight) : YtResponse(i, AuthRejection))
            => /\ token' = ""
               /\ ~isAuthenticated'
               /\ Screen' = "login"]_vars

\* C15: on each of the four screens, while a request is pending the screen's
\* controls are disabled: as long as the request stays pending no field of
\* the screen changes and no further request is issued; when the request
\* settles the pending flag is false again.
C15_PendingDisablesControls ==
    [][/\ (loginLoading /\ loginLoading') =>
            /\ UNCHANGED <<loginUsername, loginPassword>>
            /\ Len(loginInflight') <= Len(loginInflight)
       /\ (regLoading /\ regLoading') =>
            /\ UNCHANGED <<regUsername, regPassword, regConfirmPassword>>
            /\ Len(regInflight') <= Len(regInflight)
       /\ (llmSaving /\ llmSaving') =>
            /\ UNCHANGED <<llmConfig, llmBaseUrl, llmApiKey>>
            /\ Len(llmSaveInflight') <= Len(llmSaveInflight)
       /\ (ytIsDownloading /\ ytIsDownloading') =>
            /\ UNCHANGED <<ytUrl, ytTitle>>
            /\ Len(ytInflight') <= Len(ytInflight)
       /\ Len(loginInflight') < Len(loginInflight) => ~loginLoading'
       /\ Len(regInflight') < Len(regInflight) => ~regLoading'
       /\ Len(llmSaveInflight') < Len(llmSaveInflight) => ~llmSaving'
       /\ Len(ytInflight') < Len(ytInflight) => ~ytIsDownloading']_vars

\* C16: every workflow is in exactly one of idle, pending, succeeded, failed:
\* the pending flag is never set together with a success or error indication,
\* success is never shown together with an error, and the pending flag is true
\* exactly while the workflow's request is in flight.
C16_OneWorkflowState ==
    /\ ~(loginLoading /\ loginError # "")
    /\ loginLoading <=> loginInflight # <<>>
    /\ ~(regLoading /\ regError # "")
    /\ regLoading <=> regInflight # <<>>
    /\ ~(llmSaving /\ llmMessage # LlmNoMessage)
    /\ llmMessage.type \in {"none", "success", "error"}
    /\ llmSaving <=> llmSaveInflight # <<>>
    /\ ~(ytIsDownloading /\ (ytSuccess \/ ytError # Null))
    /\ ~(ytSuccess /\ ytError # Null)
    /\ ytIsDownloading <=> ytInflight # <<>>

LoginFieldsEdited ==
    /\ Screen = "login" /\ Screen' = "login"
    /\ loginInflight' = loginInflight
    /\ <<loginUsername, loginPassword>>' # <<loginUsername, loginPassword>>

RegFieldsEdited ==
    /\ Screen = "registration" /\ Screen' = "registration"
    /\ regInflight' = regInflight
    /\ <<regUsername, regPassword, regConfirmPassword>>'
            # <<regUsername, regPassword, regConfirmPassword>>

\* C17 as stated: in the login and registration workflows, editing a field
\* after a failed submission clears the displayed error, before any new
\* submission.
C17_EditClearsError ==
    [][/\ (LoginFieldsEdited /\ loginError # "") => loginError' = ""
       /\ (RegFieldsEdited /\ regError # "") => regError' = ""]_vars

\* C17 amended: editing a field leaves the displayed error as it is; the
\* error is cleared by the next submission, whose handler starts by setting
\* it to the empty string.
C17_SubmitClearsError ==
    [][/\ LoginFieldsEdited => loginError' = loginError
       /\ RegFieldsEdited => regError' = regError
       /\ Len(loginInflight') > Len(loginInflight) => loginError' = ""
       /\ Len(regInflight') > Len(regInflight) => regError' = ""]_vars

\* the username was emptied after a rejected login and the error is still shown
C17_Witness ==
    /\ Screen = "login" /\ ~loginLoading
    /\ loginError = "Invalid credentials"
    /\ loginUsername = <<>>

\* C19: the initialization check settles once; from then on the gate never
\* shows the loading screen again, and a failed check leaves the gate
\* initialized with requiresRegistration false, showing the login screen.
C19_InitSettlesOnce ==
    /\ [](Screen = "loading" <=> ~isInitialized)
    /\ [][isInitialized => isInitialized']_vars
    /\ [][\A outcome \in InitOutcomes :
            InitCheckSettles(outcome) =>
                /\ ~isInitialized /\ isInitialized'
                /\ Screen' # "loading"
                /\ outcome = "failed" =>
                        ~requiresRegistration' /\ Screen' = "login"]_vars

\* the check has settled without requiring registration: the login screen
C19_Witness ==
    /\ isInitialized /\ ~requiresRegistration /\ ~isAuthenticated
    /\ Screen = "login"
    /\ loginInflight = <<>> /\ loginCalls = <<>>

\* the five rule facts of a password, each stated directly on its characters
RuleFacts(p) ==
    [hasMinLength |-> Len(p) >= 8,
     hasUppercase |-> \E i \in 1..Len(p) : p[i] \in UppercaseChars,
     hasLowercase |-> \E i \in 1..Len(p) : p[i] \in LowercaseChars,
     hasNumber |-> \E i \in 1..Len(p) : p[i] \in DigitChars,
     hasSpecialChar |-> \E i \in 1..Len(p) : p[i] \in SpecialChars]

RuleNames == {"hasMinLength", "hasUppercase", "hasLowercase", "hasNumber",
              "hasSpecialChar"}

\* every order in which the five facts can be evaluated
RuleOrders ==
    {order : order \in
        {o \in [1..Cardinality(RuleNames) -> RuleNames] :
            \A i, j \in DOMAIN o : o[i] = o[j] => i = j}}

\* Array.prototype.every(Boolean) over the facts taken in the given order:
\* it stops at the first false one
RECURSIVE EveryInOrder(_, _)
EveryInOrder(order, facts) ==
    IF order = <<>> THEN TRUE
    ELSE IF ~facts[Head(order)] THEN FALSE
    ELSE EveryInOrder(Tail(order), facts)

\* C20: the validity predicate holds for the typed password iff all five
\* rule facts hold for it (length at least 8, an uppercase letter, a
\* lowercase letter, a digit, a character of the punctuation set), whatever
\* the order in which the facts are evaluated.
C20_ValidIffAllFiveRules ==
    LET strength == checkPasswordStrength(regPassword)
        valid == isPasswordValid(regPassword)
    IN  /\ valid <=> \A name \in RuleNames : RuleFacts(regPassword)[name]
        /\ \A order \in RuleOrders : EveryInOrder(order, strength) = valid
        /\ strength = RuleFacts(regPassword)

\* a password that satisfies all five rules has been typed and is valid
C20_Witness ==
    /\ regPassword = ValidPassword
    /\ isPasswordValid(regPassword)
    /\ \A name \in RuleNames : RuleFacts(regPassword)[name]

\* C21: passwordsMatch holds for a password and a confirmation iff the
\* confirmation is non-empty and equal to the password; two empty fields do
\* not match. Stated for the typed fields and for every pair of inputs.
C21_MatchIffNonEmptyEqual ==
    /\ passwordsMatch(regPassword, regConfirmPassword) <=>
            (regConfirmPassword # <<>> /\ regConfirmPassword = regPassword)
    /\ (regPassword = <<>> /\ regConfirmPassword = <<>>) =>
            ~passwordsMatch(regPassword, regConfirmPassword)
    /\ \A p \in RegPasswords, c \in RegPasswords \cup RegConfirms :
            passwordsMatch(p, c) <=> (c # <<>> /\ c = p)

\* the same non-empty text typed into both fields: they match
C21_Witness ==
    /\ regPassword = ValidPassword
    /\ regConfirmPassword = ValidPassword
    /\ passwordsMatch(regPassword, regConfirmPassword)

\* one request has left the queue and none has joined it
OneRemoved(old, new) == \E i \in 1..Len(old) : new = RemoveAt(old, i)

\* the queue is as it was, or one request settled, or one was issued
AtMostOneIssued(old, new) ==
    \/ new = old
    \/ OneRemoved(old, new)
    \/ Len(new) = Len(old) + 1 /\ SubSeq(new, 1, Len(old)) = old

\* the submit actions of the four workflows
LoginSubmitted == LoginClickSubmit
RegSubmitted == RegClickSubmit \/ RegDispatchSubmit
LlmSubmitted == LlmClickSave
YtSubmitted == YtClickSubmit \/ YtDispatchSubmit

Cleared(old, new) == old # <<>> /\ new = <<>>

\* a step in which the user sets a field, a dialog closes, or a component is
\* unmounted by the session that a successful login or registration starts
UserEdit ==
    \/ \E u \in LoginTexts : LoginTypeUsername(u) \/ LoginTypePassword(u)
    \/ \E u \in RegUsernames : RegTypeUsername(u) \/ RegDispatchUsernameChange(u)
    \/ \E p \in RegPasswords : RegTypePassword(p)
    \/ \E c \in RegConfirms : RegTypeConfirmPassword(c)
    \/ \E u \in YtUrls : YtTypeUrl(u)
    \/ \E t \in YtTitles : YtTypeTitle(t)
    \/ \E u \in LlmBaseUrls : LlmTypeBaseUrl(u)
    \/ \E k \in LlmApiKeys : LlmTypeApiKey(k)

DialogClose == YtClickCancel \/ YtDismiss \/ YtAutoClose

Unmounted == ~isAuthenticated /\ isAuthenticated'

\* C23: after a failed login, registration or media-import submission, local
\* or remote, pending is false, the typed values are unchanged and the
\* workflow is editable (an open dialog shows its form, not the complete
\* display); outside user edits and dialog closes the only field ever
\* cleared is the API key after a successful openai save.
C23_FailureKeepsEditableState ==
    [][/\ \A i \in 1..MaxInflight :
            /\ \A resp \in AuthResponses :
                /\ (LoginResponse(i, resp) /\ ~LoginCallsOnLogin(resp)) =>
                        /\ ~loginLoading'
                        /\ loginUsername' = loginUsername
                        /\ loginPassword' = loginPassword
                /\ (RegResponse(i, resp) /\ ~RegCallsOnRegister(resp)) =>
                        /\ ~regLoading'
                        /\ regUsername' = regUsername
                        /\ regPassword' = regPassword
                        /\ regConfirmPassword' = regConfirmPassword
            /\ \A resp \in YtResponses :
                (YtResponse(i, resp) /\ ~(Resolved(resp) /\ resp.ok)) =>
                        /\ ~ytIsDownloading'
                        /\ ytUrl' = ytUrl /\ ytTitle' = ytTitle
                        /\ ytIsOpen' => ~ytSuccess'
       /\ (RegSubmitted /\ ~(isPasswordValid(regPassword)
                /\ passwordsMatch(regPassword, regConfirmPassword))) =>
            /\ ~regLoading'
            /\ regUsername' = regUsername
            /\ regPassword' = regPassword
            /\ regConfirmPassword' = regConfirmPassword
       /\ (YtSubmitted /\ ~(Trim(ytUrl) # <<>> /\ validateYouTubeUrl(ytUrl))) =>
            /\ ~ytIsDownloading'
            /\ ytUrl' = ytUrl /\ ytTitle' = ytTitle
            /\ YtFormShown'
       /\ (~UserEdit /\ ~DialogClose /\ ~Unmounted) =>
            /\ ~Cleared(loginUsername, loginUsername')
            /\ ~Cleared(loginPassword, loginPassword')
            /\ ~Cleared(regUsername, regUsername')
            /\ ~Cleared(regPassword, regPassword')
            /\ ~Cleared(regConfirmPassword, regConfirmPassword')
            /\ ~Cleared(ytUrl, ytUrl') /\ ~Cleared(ytTitle, ytTitle')
            /\ ~Cleared(llmBaseUrl, llmBaseUrl')
            /\ Cleared(llmApiKey, llmApiKey') =>
                    \E i \in 1..Len(llmSaveInflight), resp \in LlmSaveResponses :
                        /\ LlmSaveResponse(i, resp)
                        /\ LlmSaveSucceeded(resp)
                        /\ llmSaveInflight[i].config.provider = "openai"
      ]_vars

\* C24: nothing cancels a request that has been sent: closing the dialog
\* leaves it in flight, a request leaves the queue only when its response
\* arrives, and the response is then applied to the dialog's state (success
\* or error set, pending cleared) whether the dialog is open or closed. The
\* requests of login, registration and LLM save also end only by a response.
C24_NoCancellation ==
    [][/\ DialogClose => ytInflight' = ytInflight
       /\ \A i \in 1..MaxInflight, resp \in YtResponses :
            YtResponse(i, resp) =>
                /\ ~ytIsDownloading'
                /\ IF Resolved(resp) /\ resp.ok
                   THEN ytSuccess' /\ ytTimers' = ytTimers + 1
                   ELSE ytError' \in ServerMessages \cup
                            {YtFailedMessage, YtNetworkErrorMessage, "Unauthorized"}
       /\ Len(ytInflight') < Len(ytInflight) =>
            \E i \in 1..Len(ytInflight), resp \in YtResponses : YtResponse(i, resp)
       /\ Len(loginInflight') < Len(loginInflight) =>
            \E i \in 1..Len(loginInflight), resp \in AuthResponses :
                LoginResponse(i, resp)
       /\ Len(regInflight') < Len(regInflight) =>
            \E i \in 1..Len(regInflight), resp \in AuthResponses :
                RegResponse(i, resp)
       /\ Len(llmSaveInflight') < Len(llmSaveInflight) =>
            \E i \in 1..Len(llmSaveInflight), resp \in LlmSaveResponses :
                LlmSaveResponse(i, resp)
      ]_vars

\* the dialog was closed while its request was in flight, and the failed
\* response has been applied to the closed dialog
C24_Witness ==
    /\ ~ytIsOpen
    /\ ytInflight = <<>>
    /\ ytError = YtNetworkErrorMessage
    /\ ~ytIsDownloading
    /\ ytUrl = <<>>

\* no whitespace at either end
Trimmed(s) == s = <<>> \/ (s[1] \notin Whitespace /\ s[Len(s)] \notin Whitespace)

\* C25: the media-import request carries the validated URL, and a title only
\* when the typed title is non-blank after trimming (then the trimmed title);
\* a blank or whitespace-only title is left out of the request.
C25_RequestCarriesUrlAndOptionalTitle ==
    /\ [](\A k \in 1..Len(ytInflight) :
            LET body == ytInflight[k].body IN
            /\ DOMAIN body \subseteq {"url", "title"}
            /\ "url" \in DOMAIN body
            /\ NonBlank(body.url) /\ Trimmed(body.url)
            /\ Includes(body.url, YOUTUBE_COM) \/ Includes(body.url, YOUTU_BE)
            /\ "title" \in DOMAIN body => NonBlank(body.title) /\ Trimmed(body.title))
    /\ [][Len(ytInflight') > Len(ytInflight) =>
            LET body == ytInflight'[Len(ytInflight')].body IN
            /\ body.url = Trim(ytUrl)
            /\ "title" \in DOMAIN body <=> NonBlank(ytTitle)
            /\ "title" \in DOMAIN body => body.title = Trim(ytTitle)]_vars

\* a request sent with a whitespace-only title typed: it carries no title
C25_Witness ==
    /\ ytIsDownloading
    /\ Len(ytInflight) = 1
    /\ ytTitle = <<" ">>
    /\ ytUrl = ShortUrl
    /\ ytInflight[1].body = [url |-> ShortUrl]

\* C26: the API key field changes only when the user types in it or when it
\* is emptied by a successful save made with the openai provider; a load, a
\* provider switch and every other response leave it as it is.
C26_ApiKeyNeverFromServer ==
    [][/\ llmApiKey' # llmApiKey =>
            \/ \E k \in LlmApiKeys : LlmTypeApiKey(k) /\ llmApiKey' = k
            \/ /\ llmApiKey' = <<>>
               /\ \E i \in 1..Len(llmSaveInflight), resp \in LlmSaveResponses :
                    /\ LlmSaveResponse(i, resp)
                    /\ LlmSaveSucceeded(resp)
                    /\ llmSaveInflight[i].config.provider = "openai"
       /\ \A resp \in LlmFetchResponses :
            LlmFetchResponse(resp) => llmApiKey' = llmApiKey
       /\ \A p \in LlmProviders :
            LlmSelectProvider(p) => llmApiKey' = llmApiKey
       /\ LlmClickSave => llmApiKey' = llmApiKey
       /\ \A i \in 1..Len(llmSaveInflight), resp \in LlmSaveResponses :
            (LlmSaveResponse(i, resp) /\ LlmSaveFailed(resp)) =>
                llmApiKey' = llmApiKey
      ]_vars

\* the load returned an openai configuration whose key the server holds:
\* the form is shown and the key field is still empty
C26_Witness ==
    /\ ~llmLoading /\ ~llmFetching
    /\ llmConfig \in ServerConfigs
    /\ llmConfig.provider = "openai" /\ HasApiKey(llmConfig)
    /\ llmMessage = LlmNoMessage
    /\ llmApiKey = <<>>

\* how many times a step's handler invoked the callback
Invocations(callbacks, name) ==
    Cardinality({k \in DOMAIN callbacks : callbacks[k] = name})

\* C27: onDownloadComplete is invoked only by the timer of a 2xx response,
\* once per such response, never by a failed or locally rejected submission;
\* onClose is invoked exactly once in a step that closes the dialog and in no
\* other step, also when the user closes it during the success display delay.
C27_CallbacksOncePerEvent ==
    [][/\ Invocations(ytCallbacks', "onDownloadComplete") <= 1
       /\ Invocations(ytCallbacks', "onDownloadComplete") = 1 =>
            ytTimers > 0 /\ ytTimers' = ytTimers - 1
       /\ ytTimers' > ytTimers =>
            /\ ytTimers' = ytTimers + 1
            /\ \E i \in 1..Len(ytInflight), resp \in YtResponses :
                    YtResponse(i, resp) /\ Resolved(resp) /\ resp.ok
       /\ ytTimers' < ytTimers =>
            Invocations(ytCallbacks', "onDownloadComplete") = 1
       /\ (ytIsOpen /\ ~ytIsOpen') <=> Invocations(ytCallbacks', "onClose") = 1
       /\ Invocations(ytCallbacks', "onClose") <= 1
      ]_vars

====
